---- MODULE Spec2Model ----
(***************************************************************************)
(* AreaPreview (map editor): a rectangle with eight size-altering squares. *)
(* The state is the object's fields; every action is one public method or *)
(* one bound event handler, run to completion.                             *)
(*                                                                         *)
(* Numbers: the program computes on IEEE doubles, which hold the halves    *)
(* used here exactly.  The model computes on integers, so it explores the  *)
(* rectangles whose displayWidth and displayHeight are even (OnGrid): on   *)
(* them x - displayWidth * 0.5 is an integer and nothing is rounded.       *)
(***************************************************************************)
EXTENDS Integers, Sequences, FiniteSets, TLC

VARIABLES
    areaData,        \* this.areaData
    preview,         \* this.preview: x, y (center), displayWidth, displayHeight, visible
    squares,         \* this.squares[0..7]: position of each square
    squaresVisible,  \* visibility given to the eight squares
    selected,        \* this.selected
    moved,           \* this.moved
    squareSelected,  \* this.squareSelected
    sceneIsGame,     \* this.scene instanceof GameScene
    bodyDown,        \* the pointer is pressed on the preview (press .. release)
    pressedSquares,  \* the squares whose isSelected() is true (press .. release)
    emitted,         \* events emitted by the last handler, in order
    markedDirty,     \* the last handler called scene.markDirty()
    thrown,          \* the last handler threw "Not the Game Scene"
    lastOp,          \* the last handler and its arguments (flag: the boolean
                     \* argument; for updatePreview, whether the id given
                     \* is the area's)
    events,          \* number of handlers run so far
    gestureFrames    \* history of the last square gesture: "none" (no DRAG
                     \* frame yet), "rejected" (every frame asked for a width
                     \* and a height below MinSize), "accepted" (otherwise)

vars == <<areaData, preview, squares, squaresVisible, selected, moved,
          squareSelected, sceneIsGame, bodyDown, pressedSquares, events,
          emitted, markedDirty, thrown, lastOp, gestureFrames>>

-----------------------------------------------------------------------------
(* Constants of the program *)

MinSize == 32

TopLeft == 0
TopCenter == 1
TopRight == 2
LeftCenter == 3
RightCenter == 4
BottomLeft == 5
BottomCenter == 6
BottomRight == 7

SquareIndexes == {TopLeft, TopCenter, TopRight, LeftCenter, RightCenter,
                  BottomLeft, BottomCenter, BottomRight}

EdgeMidpoints == {RightCenter, LeftCenter, TopCenter, BottomCenter}

Corners == SquareIndexes \ EdgeMidpoints

-----------------------------------------------------------------------------
(* Inputs explored *)

(* The area starts with one property, so that a change of another key can   *)
(* be told from a change of the whole mapping.                              *)
InitialProperties == [k \in {"kind"} |-> "silent"]

InitialAreas ==
    { [id |-> "a1", name |-> "zone", x |-> 0, y |-> 0,
       width |-> 100, height |-> 100, properties |-> InitialProperties] }

DragPoints == {<<150, 50>>, <<10, 10>>, <<80, 80>>}

MaxEvents == 6

MaxEventsSerial == 8

MaxEventsAnyId == 6

UpdateInputs ==
    { [id |-> "a1", x |-> 10, y |-> 20, width |-> 100, height |-> 50],
      [id |-> "a1", width |-> 10] }

(* A partial whose id is not the area's: updatePreview does not compare.    *)
ForeignIdInputs == { [id |-> "a2"] }

PropertyKeys == {"color"}

PropertyValues == {"red"}

-----------------------------------------------------------------------------
(* Geometry of the preview rectangle (origin 0.5, 0.5) *)

Half(n) == n \div 2

OnGrid(p) == p.displayWidth % 2 = 0 /\ p.displayHeight % 2 = 0

Point(px, py) == [x |-> px, y |-> py]

GetLeft(p) == p.x - Half(p.displayWidth)

GetRight(p) == p.x + Half(p.displayWidth)

GetTop(p) == p.y - Half(p.displayHeight)

GetBottom(p) == p.y + Half(p.displayHeight)

GetTopLeft(p) == Point(GetLeft(p), GetTop(p))

GetTopCenter(p) == Point(p.x, GetTop(p))

GetTopRight(p) == Point(GetRight(p), GetTop(p))

GetLeftCenter(p) == Point(GetLeft(p), p.y)

GetRightCenter(p) == Point(GetRight(p), p.y)

GetBottomLeft(p) == Point(GetLeft(p), GetBottom(p))

GetBottomCenter(p) == Point(p.x, GetBottom(p))

GetBottomRight(p) == Point(GetRight(p), GetBottom(p))

CreatePreview(a) ==
    [x |-> a.x + Half(a.width), y |-> a.y + Half(a.height),
     displayWidth |-> a.width, displayHeight |-> a.height, visible |-> TRUE]

(* Variant: the two bottom squares on the left take each other's place. *)
UpdateSquaresPositionsSwapped(p) ==
    [i \in SquareIndexes |->
        CASE i = TopLeft      -> GetTopLeft(p)
          [] i = TopCenter    -> GetTopCenter(p)
          [] i = TopRight     -> GetTopRight(p)
          [] i = LeftCenter   -> GetLeftCenter(p)
          [] i = RightCenter  -> GetRightCenter(p)
          [] i = BottomLeft   -> GetBottomCenter(p)
          [] i = BottomCenter -> GetBottomLeft(p)
          [] i = BottomRight  -> GetBottomRight(p)]

UpdateSquaresPositions(p) ==
    [i \in SquareIndexes |->
        CASE i = TopLeft      -> GetTopLeft(p)
          [] i = TopCenter    -> GetTopCenter(p)
          [] i = TopRight     -> GetTopRight(p)
          [] i = LeftCenter   -> GetLeftCenter(p)
          [] i = RightCenter  -> GetRightCenter(p)
          [] i = BottomLeft   -> GetBottomLeft(p)
          [] i = BottomCenter -> GetBottomCenter(p)
          [] i = BottomRight  -> GetBottomRight(p)]

-----------------------------------------------------------------------------
(* Events *)

UpdateEvent(data) == [type |-> "Update", data |-> data]

(* Variant: another member of the event enumeration is sent. *)
DoubleClickedEvent == [type |-> "DoubleClicked"]

ClickedEvent == [type |-> "Clicked"]

(* Variant: the payload carries the center as x, y. *)
GeometryDataFromCenter(id, p) ==
    [id |-> id, x |-> p.x, y |-> p.y,
     width |-> p.displayWidth, height |-> p.displayHeight]

GeometryData(id, p) ==
    [id |-> id,
     x |-> p.x - Half(p.displayWidth),
     y |-> p.y - Half(p.displayHeight),
     width |-> p.displayWidth,
     height |-> p.displayHeight]

Op(name, index, px, py, flag) ==
    [op |-> name, index |-> index, x |-> px, y |-> py, flag |-> flag]

-----------------------------------------------------------------------------
Init ==
    /\ areaData \in InitialAreas
    /\ preview = CreatePreview(areaData)
    /\ squares = UpdateSquaresPositions(preview)
    /\ squaresVisible = FALSE
    /\ selected = FALSE
    /\ moved = FALSE
    /\ squareSelected = FALSE
    /\ sceneIsGame \in BOOLEAN
    /\ bodyDown = FALSE
    /\ pressedSquares = {}
    /\ events = 0
    /\ gestureFrames = "none"
    /\ emitted = <<>>
    /\ markedDirty = FALSE
    /\ thrown = FALSE
    /\ lastOp = Op("constructor", 0, 0, 0, FALSE)


-----------------------------------------------------------------------------
(* Helpers of the methods *)

ShowSizeAlteringSquares(show, p, sv) ==
    IF show /\ ~p.visible THEN sv ELSE show

(* Variant: the new mapping replaces the old one. *)
MergePropertiesReplacing(props, more) == more

MergeProperties(props, more) ==
    [k \in (DOMAIN props) \cup (DOMAIN more) |->
        IF k \in DOMAIN more THEN more[k] ELSE props[k]]

Merge(a, data) ==
    [f \in DOMAIN a |->
        IF f \in DOMAIN data
        THEN IF f = "properties"
             THEN MergeProperties(a[f], data[f])
             ELSE data[f]
        ELSE a[f]]

(* Variant: the area's corner is taken for the center. *)
PreviewFromAreaCorner(p, a) ==
    [p EXCEPT !.x = a.x, !.y = a.y,
              !.displayWidth = a.width, !.displayHeight = a.height]

PreviewFromArea(p, a) ==
    [p EXCEPT !.x = a.x + Half(a.width),
              !.y = a.y + Half(a.height),
              !.displayWidth = a.width,
              !.displayHeight = a.height]

(* Variant: the center is stored as the corner. *)
UpdateAreaDataWithCenter(a, p) ==
    [a EXCEPT !.x = p.x, !.y = p.y,
              !.width = p.displayWidth, !.height = p.displayHeight]

(* Variant: the old record is not spread into the new one. *)
UpdateAreaDataWithoutSpread(a, p) ==
    [id |-> "", name |-> "",
     x |-> p.x - Half(p.displayWidth),
     y |-> p.y - Half(p.displayHeight),
     width |-> p.displayWidth,
     height |-> p.displayHeight,
     properties |-> a.properties]

(* Variant: only the position is committed. *)
UpdateAreaDataPositionOnly(a, p) ==
    [a EXCEPT !.x = p.x - Half(p.displayWidth),
              !.y = p.y - Half(p.displayHeight)]

UpdateAreaDataWithSquaresAdjustments(a, p) ==
    [a EXCEPT !.x = p.x - Half(p.displayWidth),
              !.y = p.y - Half(p.displayHeight),
              !.width = p.displayWidth,
              !.height = p.displayHeight]

(* Variant: a scene of another kind is passed over in silence. *)
MarkDirtySilent(isGame) == FALSE

(* The drag handlers throw "Not the Game Scene" after they moved the        *)
(* rectangle when the scene is not the game scene.                          *)
MarkDirtyThrows(isGame) == ~isGame

(* Variant: the squareSelected gate is missing. *)
DragAllowedIgnoringSquare(isDown, sel, sqSel) == isDown /\ sel

DragAllowed(isDown, sel, sqSel) == isDown /\ sel /\ ~sqSel

(* Variant: the drag position is taken for the top-left corner. *)
PreviewDraggedAsTopLeft(p, dragX, dragY) ==
    [p EXCEPT !.x = dragX + Half(p.displayWidth),
              !.y = dragY + Half(p.displayHeight)]

PreviewDragged(p, dragX, dragY) == [p EXCEPT !.x = dragX, !.y = dragY]

(* Variant: any positive extent is accepted. *)
AcceptsPositive(extent) == extent > 0

Accepts(extent) == extent >= MinSize

(* Variant: the width is measured from the top-left square. *)
EdgeNewWidthFromTopLeft(sq) == sq[RightCenter].x - sq[TopLeft].x

EdgeNewWidth(sq) == sq[RightCenter].x - sq[LeftCenter].x

(* Variant: the height is measured from the left-center square. *)
EdgeNewHeightFromLeftCenter(sq) == sq[BottomCenter].y - sq[LeftCenter].y

EdgeNewHeight(sq) == sq[BottomCenter].y - sq[TopCenter].y

CornerNewWidth(index, p, s) ==
    CASE index = TopLeft     -> GetRightCenter(p).x - s.x
      [] index = TopRight    -> s.x - GetLeftCenter(p).x
      [] index = BottomLeft  -> GetRightCenter(p).x - s.x
      [] index = BottomRight -> s.x - GetLeftCenter(p).x
      [] OTHER               -> 0

CornerNewHeight(index, p, s) ==
    CASE index = TopLeft     -> GetBottomCenter(p).y - s.y
      [] index = TopRight    -> GetBottomCenter(p).y - s.y
      [] index = BottomLeft  -> s.y - GetTopCenter(p).y
      [] index = BottomRight -> s.y - GetTopCenter(p).y
      [] OTHER               -> 0

(* Variant: every corner adds half the width, as the left corners do. *)
CornerNewCenterXAllPlus(index, s, newWidth) ==
    IF index \in {TopLeft, TopRight, BottomLeft, BottomRight}
    THEN s.x + Half(newWidth)
    ELSE 0

CornerNewCenterX(index, s, newWidth) ==
    CASE index = TopLeft     -> s.x + Half(newWidth)
      [] index = TopRight    -> s.x - Half(newWidth)
      [] index = BottomLeft  -> s.x + Half(newWidth)
      [] index = BottomRight -> s.x - Half(newWidth)
      [] OTHER               -> 0

CornerNewCenterY(index, s, newHeight) ==
    CASE index = TopLeft     -> s.y + Half(newHeight)
      [] index = TopRight    -> s.y + Half(newHeight)
      [] index = BottomLeft  -> s.y - Half(newHeight)
      [] index = BottomRight -> s.y - Half(newHeight)
      [] OTHER               -> 0

(* What a DRAG frame of square index at (dragX, dragY) asks for, read off   *)
(* the rectangle's edges: the extent between the dragged edge and the one   *)
(* facing it.  Used to classify frames in gestureFrames and in the claims.  *)
AskedWidth(index, p, dragX) ==
    IF index \in {TopLeft, LeftCenter, BottomLeft} THEN GetRight(p) - dragX
    ELSE IF index \in {TopRight, RightCenter, BottomRight} THEN dragX - GetLeft(p)
    ELSE GetRight(p) - GetLeft(p)

AskedHeight(index, p, dragY) ==
    IF index \in {TopLeft, TopCenter, TopRight} THEN GetBottom(p) - dragY
    ELSE IF index \in {BottomLeft, BottomCenter, BottomRight} THEN dragY - GetTop(p)
    ELSE GetBottom(p) - GetTop(p)

(* The body of the square DRAG handler up to updateSquaresPositions: the    *)
(* preview it leaves.  sq1..sq5 are the squares as the handler moves and    *)
(* restores the dragged one.                                                *)
SquareDragged(p, sq, index, dragX, dragY) ==
    LET oldX == sq[index].x
        oldY == sq[index].y
        sq1 == [sq EXCEPT ![index] = Point(dragX, dragY)]
        isEdge == index \in EdgeMidpoints
        eW == EdgeNewWidth(sq1)
        eH == EdgeNewHeight(sq1)
        p1 == IF isEdge /\ Accepts(eW)
              THEN [p EXCEPT !.displayWidth = eW,
                             !.x = sq1[LeftCenter].x + Half(eW)]
              ELSE p
        sq2 == IF isEdge /\ ~Accepts(eW)
               THEN [sq1 EXCEPT ![index].x = oldX]
               ELSE sq1
        p2 == IF isEdge /\ Accepts(eH)
              THEN [p1 EXCEPT !.displayHeight = eH,
                              !.y = sq2[TopCenter].y + Half(eH)]
              ELSE p1
        sq3 == IF isEdge /\ ~Accepts(eH)
               THEN [sq2 EXCEPT ![index].y = oldY]
               ELSE sq2
        newWidth == IF isEdge THEN 0 ELSE CornerNewWidth(index, p2, sq3[index])
        newHeight == IF isEdge THEN 0 ELSE CornerNewHeight(index, p2, sq3[index])
        newCenterX == IF isEdge THEN 0 ELSE CornerNewCenterX(index, sq3[index], newWidth)
        newCenterY == IF isEdge THEN 0 ELSE CornerNewCenterY(index, sq3[index], newHeight)
        p3 == IF Accepts(newWidth)
              THEN [p2 EXCEPT !.displayWidth = newWidth, !.x = newCenterX]
              ELSE p2
        p4 == IF Accepts(newHeight)
              THEN [p3 EXCEPT !.displayHeight = newHeight, !.y = newCenterY]
              ELSE p3
    IN  p4

-----------------------------------------------------------------------------
(* Public methods *)

(* Variant: the argument is ignored and the flag is flipped. *)
SelectFlipping(value) ==
    /\ UNCHANGED gestureFrames
    /\ lastOp' = Op("select", IF lastOp.op = "select" /\ lastOp.flag = value
                              THEN 1 ELSE 0, 0, 0, value)
    /\ selected' = ~selected
    /\ squaresVisible' = ShowSizeAlteringSquares(~selected, preview, squaresVisible)
    /\ emitted' = <<>>
    /\ markedDirty' = FALSE
    /\ thrown' = FALSE
    /\ UNCHANGED <<areaData, preview, squares, moved, squareSelected,
                   sceneIsGame, bodyDown, pressedSquares>>

(* lastOp.index is 1 when the call repeats the call just before it. *)
Select(value) ==
    /\ UNCHANGED gestureFrames
    /\ lastOp' = Op("select", IF lastOp.op = "select" /\ lastOp.flag = value
                              THEN 1 ELSE 0, 0, 0, value)
    /\ IF selected = value
       THEN UNCHANGED <<selected, squaresVisible>>
       ELSE /\ selected' = value
            /\ squaresVisible' = ShowSizeAlteringSquares(value, preview, squaresVisible)
    /\ emitted' = <<>>
    /\ markedDirty' = FALSE
    /\ thrown' = FALSE
    /\ UNCHANGED <<areaData, preview, squares, moved, squareSelected,
                   sceneIsGame, bodyDown, pressedSquares>>

SetVisible(value) ==
    /\ UNCHANGED gestureFrames
    /\ lastOp' = Op("setVisible", 0, 0, 0, value)
    /\ preview' = [preview EXCEPT !.visible = value]
    /\ squaresVisible' = IF ~value
                         THEN ShowSizeAlteringSquares(FALSE, preview', squaresVisible)
                         ELSE squaresVisible
    /\ emitted' = <<>>
    /\ markedDirty' = FALSE
    /\ thrown' = FALSE
    /\ UNCHANGED <<areaData, squares, selected, moved, squareSelected,
                   sceneIsGame, bodyDown, pressedSquares>>

UpdatePreview(dataToModify) ==
    /\ UNCHANGED gestureFrames
    /\ lastOp' = Op("updatePreview", 0, 0, 0, dataToModify.id = areaData.id)
    /\ areaData' = Merge(areaData, dataToModify)
    /\ preview' = PreviewFromArea(preview, areaData')
    /\ OnGrid(preview')
    /\ squares' = UpdateSquaresPositions(preview')
    /\ emitted' = <<>>
    /\ markedDirty' = FALSE
    /\ thrown' = FALSE
    /\ UNCHANGED <<squaresVisible, selected, moved, squareSelected,
                   sceneIsGame, bodyDown, pressedSquares>>

SetProperty(key, value) ==
    /\ UNCHANGED gestureFrames
    /\ lastOp' = Op("setProperty", 0, 0, 0, FALSE)
    /\ areaData' = [areaData EXCEPT
                       !.properties = MergeProperties(@, [k \in {key} |-> value])]
    /\ emitted' = <<UpdateEvent([id |-> areaData.id,
                                 properties |-> [k \in {key} |-> value]])>>
    /\ markedDirty' = FALSE
    /\ thrown' = FALSE
    /\ UNCHANGED <<preview, squares, squaresVisible, selected, moved,
                   squareSelected, sceneIsGame, bodyDown, pressedSquares>>

-----------------------------------------------------------------------------
(* Handlers bound on the preview *)

PreviewPointerDown(onCanvas) ==
    /\ UNCHANGED gestureFrames
    /\ preview.visible
    /\ ~bodyDown
    /\ bodyDown' = TRUE
    /\ lastOp' = Op("previewPointerDown", 0, 0, 0, onCanvas)
    /\ emitted' = IF onCanvas THEN <<ClickedEvent>> ELSE <<>>
    /\ markedDirty' = FALSE
    /\ thrown' = FALSE
    /\ UNCHANGED <<areaData, preview, squares, squaresVisible, selected, moved,
                   squareSelected, sceneIsGame, pressedSquares>>

PreviewDrag(isDown, dragX, dragY) ==
    /\ UNCHANGED gestureFrames
    /\ bodyDown
    /\ lastOp' = Op("previewDrag", 0, dragX, dragY, isDown)
    /\ IF DragAllowed(isDown, selected, squareSelected)
       THEN /\ preview' = PreviewDragged(preview, dragX, dragY)
            /\ squares' = UpdateSquaresPositions(preview')
            /\ moved' = TRUE
            /\ markedDirty' = sceneIsGame
            /\ thrown' = MarkDirtyThrows(sceneIsGame)
       ELSE /\ UNCHANGED <<preview, squares, moved>>
            /\ markedDirty' = FALSE
            /\ thrown' = FALSE
    /\ emitted' = <<>>
    /\ UNCHANGED <<areaData, squaresVisible, selected, squareSelected,
                   sceneIsGame, bodyDown, pressedSquares>>

PreviewPointerUp ==
    /\ UNCHANGED gestureFrames
    /\ bodyDown
    /\ bodyDown' = FALSE
    /\ lastOp' = Op("previewPointerUp", 0, 0, 0, FALSE)
    /\ IF selected /\ moved
       THEN /\ moved' = FALSE
            /\ areaData' = UpdateAreaDataWithSquaresAdjustments(areaData, preview)
            /\ emitted' = <<UpdateEvent(GeometryData(areaData'.id, preview))>>
       ELSE /\ UNCHANGED <<moved, areaData>>
            /\ emitted' = <<>>
    /\ markedDirty' = FALSE
    /\ thrown' = FALSE
    /\ UNCHANGED <<preview, squares, squaresVisible, selected, squareSelected,
                   sceneIsGame, pressedSquares>>

-----------------------------------------------------------------------------
(* Handlers bound on each square *)

SquarePointerDown(index) ==
    /\ gestureFrames' = "none"
    /\ squaresVisible
    /\ pressedSquares = {}
    /\ pressedSquares' = {index}
    /\ lastOp' = Op("squareSelected", index, 0, 0, FALSE)
    /\ squareSelected' = TRUE
    /\ emitted' = <<>>
    /\ markedDirty' = FALSE
    /\ thrown' = FALSE
    /\ UNCHANGED <<areaData, preview, squares, squaresVisible, selected, moved,
                   sceneIsGame, bodyDown>>

SquareDrag(index, dragX, dragY) ==
    /\ gestureFrames' =
          IF /\ gestureFrames # "accepted"
             /\ AskedWidth(index, preview, dragX) < MinSize
             /\ AskedHeight(index, preview, dragY) < MinSize
          THEN "rejected"
          ELSE "accepted"
    /\ index \in pressedSquares
    /\ lastOp' = Op("squareDrag", index, dragX, dragY, TRUE)
    /\ preview' = SquareDragged(preview, squares, index, dragX, dragY)
    /\ OnGrid(preview')
    /\ squares' = UpdateSquaresPositions(preview')
    /\ markedDirty' = sceneIsGame
    /\ thrown' = MarkDirtyThrows(sceneIsGame)
    /\ emitted' = <<>>
    /\ UNCHANGED <<areaData, squaresVisible, selected, moved, squareSelected,
                   sceneIsGame, bodyDown, pressedSquares>>

SquareReleased(index) ==
    /\ UNCHANGED gestureFrames
    /\ index \in pressedSquares
    /\ pressedSquares' = pressedSquares \ {index}
    /\ lastOp' = Op("squareReleased", index, 0, 0, FALSE)
    /\ squareSelected' = FALSE
    /\ areaData' = UpdateAreaDataWithSquaresAdjustments(areaData, preview)
    /\ emitted' = <<UpdateEvent(GeometryData(areaData'.id, preview))>>
    /\ markedDirty' = FALSE
    /\ thrown' = FALSE
    /\ UNCHANGED <<preview, squares, squaresVisible, selected, moved,
                   sceneIsGame, bodyDown>>

-----------------------------------------------------------------------------
Count ==
    /\ events < MaxEvents
    /\ events' = events + 1

Next ==
    \/ \E value \in BOOLEAN : Select(value) /\ Count
    \/ \E value \in BOOLEAN : SetVisible(value) /\ Count
    \/ \E data \in UpdateInputs : UpdatePreview(data) /\ Count
    \/ \E key \in PropertyKeys, value \in PropertyValues :
          SetProperty(key, value) /\ Count
    \/ \E onCanvas \in BOOLEAN : PreviewPointerDown(onCanvas) /\ Count
    \/ \E isDown \in BOOLEAN, pt \in DragPoints :
          PreviewDrag(isDown, pt[1], pt[2]) /\ Count
    \/ PreviewPointerUp /\ Count
    \/ \E index \in SquareIndexes : SquarePointerDown(index) /\ Count
    \/ \E index \in SquareIndexes, pt \in DragPoints :
          SquareDrag(index, pt[1], pt[2]) /\ Count
    \/ \E index \in SquareIndexes : SquareReleased(index) /\ Count

Spec == Init /\ [][Next]_vars

(* The host delivers one gesture at a time: no press while another gesture  *)
(* is open.                                                                 *)
CountSerial ==
    /\ events < MaxEventsSerial
    /\ events' = events + 1

NextSerial ==
    \/ \E value \in BOOLEAN : Select(value) /\ CountSerial
    \/ \E value \in BOOLEAN : SetVisible(value) /\ CountSerial
    \/ \E data \in UpdateInputs : UpdatePreview(data) /\ CountSerial
    \/ \E key \in PropertyKeys, value \in PropertyValues :
          SetProperty(key, value) /\ CountSerial
    \/ \E onCanvas \in BOOLEAN :
          pressedSquares = {} /\ PreviewPointerDown(onCanvas) /\ CountSerial
    \/ \E isDown \in BOOLEAN, pt \in DragPoints :
          PreviewDrag(isDown, pt[1], pt[2]) /\ CountSerial
    \/ PreviewPointerUp /\ CountSerial
    \/ \E index \in SquareIndexes : ~bodyDown /\ SquarePointerDown(index) /\ CountSerial
    \/ \E index \in SquareIndexes, pt \in DragPoints :
          SquareDrag(index, pt[1], pt[2]) /\ CountSerial
    \/ \E index \in SquareIndexes : SquareReleased(index) /\ CountSerial

SpecSerial == Init /\ [][NextSerial]_vars

(* Callers may hand updatePreview a partial with a foreign id.              *)
CountAnyId ==
    /\ events < MaxEventsAnyId
    /\ events' = events + 1

NextAnyId ==
    \/ \E value \in BOOLEAN : Select(value) /\ CountAnyId
    \/ \E value \in BOOLEAN : SetVisible(value) /\ CountAnyId
    \/ \E data \in UpdateInputs \cup ForeignIdInputs : UpdatePreview(data) /\ CountAnyId
    \/ \E key \in PropertyKeys, value \in PropertyValues :
          SetProperty(key, value) /\ CountAnyId
    \/ \E onCanvas \in BOOLEAN : PreviewPointerDown(onCanvas) /\ CountAnyId
    \/ \E isDown \in BOOLEAN, pt \in DragPoints :
          PreviewDrag(isDown, pt[1], pt[2]) /\ CountAnyId
    \/ PreviewPointerUp /\ CountAnyId
    \/ \E index \in SquareIndexes : SquarePointerDown(index) /\ CountAnyId
    \/ \E index \in SquareIndexes, pt \in DragPoints :
          SquareDrag(index, pt[1], pt[2]) /\ CountAnyId
    \/ \E index \in SquareIndexes : SquareReleased(index) /\ CountAnyId

SpecAnyId == Init /\ [][NextAnyId]_vars

-----------------------------------------------------------------------------
(* Shorthands of the claims *)

IsGeometryUpdate(e) == e.type = "Update" /\ "width" \in DOMAIN e.data

AreaGeometry(a) == [x |-> a.x, y |-> a.y, width |-> a.width, height |-> a.height]

RectGeometry(p) ==
    [x |-> GetLeft(p), y |-> GetTop(p),
     width |-> p.displayWidth, height |-> p.displayHeight]

-----------------------------------------------------------------------------
(* C1: after any square gesture (press, DRAG frames, release), from any     *)
(* reachable state, the stored area and the emitted Update payload both     *)
(* have width >= 32 and height >= 32.                                       *)
C1_CommittedAtLeastMinSize ==
    lastOp.op = "squareReleased" =>
        /\ areaData.width >= MinSize
        /\ areaData.height >= MinSize
        /\ \A i \in 1..Len(emitted) :
              IsGeometryUpdate(emitted[i]) =>
                  /\ emitted[i].data.width >= MinSize
                  /\ emitted[i].data.height >= MinSize

-----------------------------------------------------------------------------
(* C2: a DRAG frame of a corner square leaves the two edges of the          *)
(* rectangle opposite that corner where they were, whether the frame's      *)
(* width and height were accepted or rejected; the release that follows     *)
(* moves nothing and commits an area with those same edges.                 *)
C2_OppositeEdgesStay(index) ==
    /\ index \in {TopLeft, BottomLeft} => GetRight(preview') = GetRight(preview)
    /\ index \in {TopRight, BottomRight} => GetLeft(preview') = GetLeft(preview)
    /\ index \in {TopLeft, TopRight} => GetBottom(preview') = GetBottom(preview)
    /\ index \in {BottomLeft, BottomRight} => GetTop(preview') = GetTop(preview)

C2_CommittedOnEdges ==
    /\ preview' = preview
    /\ areaData'.x = GetLeft(preview)
    /\ areaData'.x + areaData'.width = GetRight(preview)
    /\ areaData'.y = GetTop(preview)
    /\ areaData'.y + areaData'.height = GetBottom(preview)

C2_CornerKeepsOppositeEdges ==
    [][ /\ (lastOp'.op = "squareDrag" /\ lastOp'.index \in Corners)
            => C2_OppositeEdgesStay(lastOp'.index)
        /\ (lastOp'.op = "squareReleased" /\ lastOp'.index \in Corners)
            => C2_CommittedOnEdges ]_vars

C2_Witness ==
    /\ lastOp.op = "squareReleased"
    /\ lastOp.index = TopLeft
    /\ gestureFrames = "accepted"
    /\ areaData.x = 10
    /\ areaData.width = 90
    /\ areaData.x + areaData.width = 100

-----------------------------------------------------------------------------
(* C3: a DRAG frame of an edge-midpoint square leaves the rectangle's       *)
(* center and extent on the other axis unchanged, whatever (dragX, dragY)   *)
(* is; the release that follows leaves the rectangle as it is.              *)
C3_EdgeMidpointKeepsOtherAxis ==
    [][ /\ (lastOp'.op = "squareDrag" /\ lastOp'.index \in {TopCenter, BottomCenter})
            => /\ preview'.x = preview.x
               /\ preview'.displayWidth = preview.displayWidth
        /\ (lastOp'.op = "squareDrag" /\ lastOp'.index \in {LeftCenter, RightCenter})
            => /\ preview'.y = preview.y
               /\ preview'.displayHeight = preview.displayHeight
        /\ (lastOp'.op = "squareReleased" /\ lastOp'.index \in EdgeMidpoints)
            => preview' = preview ]_vars

C3_Witness ==
    /\ lastOp.op = "squareDrag"
    /\ lastOp.index = LeftCenter
    /\ lastOp.y # preview.y
    /\ preview.displayWidth # areaData.width
    /\ preview.displayHeight = areaData.height

-----------------------------------------------------------------------------
(* C4: in one square DRAG frame the two axes are accepted or rejected       *)
(* separately: an asked width below 32 leaves width and x-center alone, an  *)
(* asked width of 32 or more becomes the width; likewise for the height     *)
(* and the y-center.                                                        *)
C4_PerAxisRejection ==
    [][ lastOp'.op = "squareDrag" =>
          LET askedW == AskedWidth(lastOp'.index, preview, lastOp'.x)
              askedH == AskedHeight(lastOp'.index, preview, lastOp'.y)
          IN  /\ askedW < 32 => /\ preview'.displayWidth = preview.displayWidth
                                /\ preview'.x = preview.x
              /\ askedW >= 32 => preview'.displayWidth = askedW
              /\ askedH < 32 => /\ preview'.displayHeight = preview.displayHeight
                                /\ preview'.y = preview.y
              /\ askedH >= 32 => preview'.displayHeight = askedH ]_vars

C4_Witness ==
    /\ lastOp.op = "squareDrag"
    /\ lastOp.index = TopLeft
    /\ lastOp.x = 150
    /\ GetRight(preview) = 100
    /\ preview.displayWidth = 100
    /\ preview.displayHeight = 50
    /\ areaData.height = 100

-----------------------------------------------------------------------------
(* C5: every square release stores x, y, width, height of the rectangle     *)
(* (center minus half the size, and the size) in the area, emits exactly    *)
(* one Update whose payload is the id and those four values, and leaves     *)
(* squareSelected false.                                                    *)
C5_ReleaseCommits ==
    lastOp.op = "squareReleased" =>
        /\ areaData.x = preview.x - (preview.displayWidth \div 2)
        /\ areaData.y = preview.y - (preview.displayHeight \div 2)
        /\ areaData.width = preview.displayWidth
        /\ areaData.height = preview.displayHeight
        /\ emitted = << [type |-> "Update",
                         data |-> [id |-> areaData.id,
                                   x |-> areaData.x, y |-> areaData.y,
                                   width |-> areaData.width,
                                   height |-> areaData.height]] >>
        /\ ~squareSelected

C5_Witness ==
    /\ lastOp.op = "squareReleased"
    /\ gestureFrames = "accepted"
    /\ areaData.width = 150
    /\ ~squareSelected

-----------------------------------------------------------------------------
(* C6: an accepted DRAG frame of an edge-midpoint square sets the extent    *)
(* between the dragged edge and the facing one, which stays: RightCenter    *)
(* to X commits x = left, width = X - left; LeftCenter to X commits x = X,  *)
(* width = right - X; likewise TopCenter and BottomCenter for y and height. *)
(* Area (0,0,100,100), RightCenter dragged to (150,50) and released: Update *)
(* with x 0, y 0, width 150, height 100.                                    *)
C6_FrameSetsExtent ==
    LET X == lastOp'.x
        Y == lastOp'.y
    IN  /\ (lastOp'.index = RightCenter /\ X - GetLeft(preview) >= 32)
            => /\ GetLeft(preview') = GetLeft(preview)
               /\ preview'.displayWidth = X - GetLeft(preview)
        /\ (lastOp'.index = LeftCenter /\ GetRight(preview) - X >= 32)
            => /\ GetLeft(preview') = X
               /\ preview'.displayWidth = GetRight(preview) - X
        /\ (lastOp'.index = BottomCenter /\ Y - GetTop(preview) >= 32)
            => /\ GetTop(preview') = GetTop(preview)
               /\ preview'.displayHeight = Y - GetTop(preview)
        /\ (lastOp'.index = TopCenter /\ GetBottom(preview) - Y >= 32)
            => /\ GetTop(preview') = Y
               /\ preview'.displayHeight = GetBottom(preview) - Y

C6_ReleaseCommitsEdges ==
    /\ areaData'.x = GetLeft(preview)
    /\ areaData'.width = preview.displayWidth
    /\ areaData'.y = GetTop(preview)
    /\ areaData'.height = preview.displayHeight
    /\ (/\ lastOp.op = "squareDrag"
        /\ lastOp.index = RightCenter
        /\ lastOp.x = 150
        /\ GetLeft(preview) = 0 /\ GetTop(preview) = 0
        /\ preview.displayHeight = 100)
        => emitted' = << [type |-> "Update",
                          data |-> [id |-> areaData.id, x |-> 0, y |-> 0,
                                    width |-> 150, height |-> 100]] >>

C6_EdgeMidpointResize ==
    [][ /\ lastOp'.op = "squareDrag" => C6_FrameSetsExtent
        /\ (lastOp'.op = "squareReleased" /\ lastOp'.index \in EdgeMidpoints)
            => C6_ReleaseCommitsEdges ]_vars

C6_Witness ==
    /\ lastOp.op = "squareReleased"
    /\ lastOp.index = RightCenter
    /\ gestureFrames = "accepted"
    /\ emitted = << [type |-> "Update",
                     data |-> [id |-> "a1", x |-> 0, y |-> 0,
                               width |-> 150, height |-> 100]] >>

-----------------------------------------------------------------------------
(* C7 as claimed: a square gesture whose every DRAG frame is rejected on    *)
(* both axes, then released, leaves the committed area unchanged and emits  *)
(* no Update carrying the unchanged width and height.                       *)
C7_RejectedGestureReleased ==
    /\ lastOp'.op = "squareReleased"
    /\ gestureFrames = "rejected"
    /\ AreaGeometry(areaData) = RectGeometry(preview)

-----------------------------------------------------------------------------
(* C8: while selected and with no square selected, a DRAG frame on the      *)
(* preview (pointer down) puts the center at the drag position, keeps       *)
(* width and height and sets moved; the pointer-up that follows a move      *)
(* emits one Update with id, x = centerX - width/2, y = centerY - height/2  *)
(* and the unchanged width and height, and resets moved.  Area              *)
(* (0,0,100,100) dragged to (80,80): x 30, y 30, width 100, height 100.     *)
C8_MoveFrame ==
    /\ preview'.x = lastOp'.x
    /\ preview'.y = lastOp'.y
    /\ preview'.displayWidth = preview.displayWidth
    /\ preview'.displayHeight = preview.displayHeight
    /\ moved'
    /\ areaData' = areaData
    /\ emitted' = <<>>

C8_MoveRelease ==
    /\ ~moved'
    /\ preview' = preview
    /\ emitted' = << [type |-> "Update",
                      data |-> [id |-> areaData.id,
                                x |-> preview.x - (preview.displayWidth \div 2),
                                y |-> preview.y - (preview.displayHeight \div 2),
                                width |-> preview.displayWidth,
                                height |-> preview.displayHeight]] >>
    /\ AreaGeometry(areaData') = [x |-> emitted'[1].data.x,
                                  y |-> emitted'[1].data.y,
                                  width |-> emitted'[1].data.width,
                                  height |-> emitted'[1].data.height]
    /\ (/\ preview.x = 80 /\ preview.y = 80
        /\ preview.displayWidth = 100 /\ preview.displayHeight = 100)
        => /\ emitted'[1].data.x = 30
           /\ emitted'[1].data.y = 30
           /\ emitted'[1].data.width = 100
           /\ emitted'[1].data.height = 100

C8_MoveGesture ==
    [][ /\ (/\ lastOp'.op = "previewDrag" /\ lastOp'.flag
            /\ selected /\ ~squareSelected)
            => C8_MoveFrame
        /\ (lastOp'.op = "previewPointerUp" /\ selected /\ moved)
            => C8_MoveRelease ]_vars

C8_Witness ==
    /\ lastOp.op = "previewPointerUp"
    /\ ~moved
    /\ emitted = << [type |-> "Update",
                     data |-> [id |-> "a1", x |-> 30, y |-> 30,
                               width |-> 100, height |-> 100]] >>

-----------------------------------------------------------------------------
(* C9: a DRAG event on the preview changes nothing (rectangle, squares,     *)
(* stored area, moved) and emits nothing when the shape is not selected or  *)
(* a square is selected.                                                    *)
C9_GatedDragChangesNothing ==
    [][ (lastOp'.op = "previewDrag" /\ (~selected \/ squareSelected))
          => /\ preview' = preview
             /\ squares' = squares
             /\ areaData' = areaData
             /\ moved' = moved
             /\ emitted' = <<>>
             /\ ~markedDirty'
             /\ ~thrown' ]_vars

C9_Witness ==
    /\ lastOp.op = "previewDrag"
    /\ lastOp.flag
    /\ selected
    /\ squareSelected
    /\ lastOp.x # preview.x

-----------------------------------------------------------------------------
(* C10: in no reachable state are moved and squareSelected both true, when  *)
(* the host delivers one gesture at a time.                                 *)
C10_Claim_OneActiveAtATime == ~(moved /\ squareSelected)

-----------------------------------------------------------------------------
(* C11: after the constructor and after every method or handler, the eight  *)
(* squares sit on the corners and edge midpoints of the rectangle's current *)
(* center and size, in the order TopLeft, TopCenter, TopRight, LeftCenter,  *)
(* RightCenter, BottomLeft, BottomCenter, BottomRight.                      *)
C11_OnAnchors(sq, p) ==
    LET l == p.x - (p.displayWidth \div 2)
        r == p.x + (p.displayWidth \div 2)
        t == p.y - (p.displayHeight \div 2)
        b == p.y + (p.displayHeight \div 2)
    IN  /\ sq[0] = [x |-> l, y |-> t]
        /\ sq[1] = [x |-> p.x, y |-> t]
        /\ sq[2] = [x |-> r, y |-> t]
        /\ sq[3] = [x |-> l, y |-> p.y]
        /\ sq[4] = [x |-> r, y |-> p.y]
        /\ sq[5] = [x |-> l, y |-> b]
        /\ sq[6] = [x |-> p.x, y |-> b]
        /\ sq[7] = [x |-> r, y |-> b]

C11_SquaresOnAnchors == C11_OnAnchors(squares, preview)

C11_Witness ==
    /\ lastOp.op = "squareDrag"
    /\ lastOp.index = TopLeft
    /\ lastOp.x = 150
    /\ preview.displayWidth = 100
    /\ preview.displayHeight = 50
    /\ squares[TopLeft] = [x |-> 0, y |-> 50]
    /\ squares[BottomCenter] = [x |-> 50, y |-> 100]

-----------------------------------------------------------------------------
(* C12: updatePreview(partial) overwrites exactly the fields given and      *)
(* keeps the others (name, properties, geometry not given); the rectangle   *)
(* gets center (x + width/2, y + height/2) and the size of the merged area, *)
(* the eight squares sit on its anchors, and nothing is emitted.            *)
C12_Merged(data) ==
    /\ \A f \in DOMAIN data : areaData'[f] = data[f]
    /\ \A f \in (DOMAIN areaData) \ (DOMAIN data) : areaData'[f] = areaData[f]
    /\ DOMAIN areaData' = DOMAIN areaData
    /\ preview'.x = areaData'.x + (areaData'.width \div 2)
    /\ preview'.y = areaData'.y + (areaData'.height \div 2)
    /\ preview'.displayWidth = areaData'.width
    /\ preview'.displayHeight = areaData'.height
    /\ preview'.visible = preview.visible
    /\ C11_OnAnchors(squares', preview')
    /\ emitted' = <<>>
    /\ data = [id |-> "a1", x |-> 10, y |-> 20, width |-> 100, height |-> 50]
        => /\ squares'[TopLeft] = [x |-> 10, y |-> 20]
           /\ squares'[RightCenter] = [x |-> 110, y |-> 45]
           /\ squares'[BottomRight] = [x |-> 110, y |-> 70]

C12_UpdatePreviewMerges ==
    [][ \A data \in UpdateInputs : UpdatePreview(data) => C12_Merged(data) ]_vars

C12_Witness ==
    /\ lastOp.op = "updatePreview"
    /\ areaData = [id |-> "a1", name |-> "zone", x |-> 10, y |-> 20,
                   width |-> 100, height |-> 50,
                   properties |-> [k \in {"kind", "color"} |->
                                      IF k = "kind" THEN "silent" ELSE "red"]]
    /\ squares[BottomRight] = [x |-> 110, y |-> 70]
    /\ emitted = <<>>

-----------------------------------------------------------------------------
(* C13: setProperty(key, value) sets properties[key] only and emits exactly *)
(* one Update whose payload is {id, properties: {key: value}}; x, y, width, *)
(* height, name, the other properties, the rectangle, the squares and the   *)
(* flags stay as they are.                                                  *)
C13_PropertySet(key, value) ==
    /\ areaData'.properties[key] = value
    /\ DOMAIN areaData'.properties = (DOMAIN areaData.properties) \cup {key}
    /\ \A k \in (DOMAIN areaData.properties) \ {key} :
          areaData'.properties[k] = areaData.properties[k]
    /\ \A f \in (DOMAIN areaData) \ {"properties"} : areaData'[f] = areaData[f]
    /\ Len(emitted') = 1
    /\ emitted'[1].type = "Update"
    /\ DOMAIN emitted'[1].data = {"id", "properties"}
    /\ emitted'[1].data.id = areaData.id
    /\ DOMAIN emitted'[1].data.properties = {key}
    /\ emitted'[1].data.properties[key] = value
    /\ UNCHANGED <<preview, squares, squaresVisible, selected, moved, squareSelected>>

C13_SetPropertyOnly ==
    [][ \A key \in PropertyKeys, value \in PropertyValues :
          SetProperty(key, value) => C13_PropertySet(key, value) ]_vars

C13_Witness ==
    /\ lastOp.op = "setProperty"
    /\ DOMAIN areaData.properties = {"kind", "color"}
    /\ areaData.properties["kind"] = "silent"
    /\ areaData.properties["color"] = "red"
    /\ emitted = << [type |-> "Update",
                     data |-> [id |-> "a1",
                               properties |-> [k \in {"color"} |-> "red"]]] >>

-----------------------------------------------------------------------------
(* C14: after any sequence of select and setVisible calls, the squares are  *)
(* shown exactly when the area is selected and the rectangle is visible.    *)
C14_Claim_SquaresShownIffSelectedAndVisible ==
    squaresVisible <=> (selected /\ preview.visible)

-----------------------------------------------------------------------------
(* C15: select(v) called twice in a row leaves the state of the first call: *)
(* the second call changes no flag, no geometry, no square and emits        *)
(* nothing.                                                                 *)
C15_SelectIdempotent ==
    [][ (lastOp.op = "select" /\ lastOp'.op = "select" /\ lastOp'.flag = lastOp.flag)
          => /\ UNCHANGED <<areaData, preview, squares, squaresVisible,
                            selected, moved, squareSelected>>
             /\ emitted' = <<>>
             /\ ~thrown' ]_vars

C15_Witness ==
    /\ lastOp.op = "select"
    /\ lastOp.index = 1
    /\ lastOp.flag
    /\ selected
    /\ squaresVisible

-----------------------------------------------------------------------------
(* C16 as written: with a scene that is not the game scene, every drag on   *)
(* the rectangle or on a square throws in that handler.                     *)
C16_Claim_EveryDragThrows ==
    (lastOp.op \in {"previewDrag", "squareDrag"} /\ ~sceneIsGame) => thrown

(* C16: with a scene that is not the game scene, every square drag and      *)
(* every rectangle drag that passes the gate (pointer down, selected, no    *)
(* square selected) throws, after the rectangle and the squares have taken  *)
(* the frame; a gated rectangle drag throws nothing and marks nothing.      *)
(* With the game scene no drag throws and every frame that passes the gate  *)
(* marks the scene dirty.  No other handler throws or marks.                *)
C16_Passes ==
    \/ lastOp'.op = "squareDrag"
    \/ /\ lastOp'.op = "previewDrag"
       /\ lastOp'.flag
       /\ selected
       /\ ~squareSelected

C16_DragThrowsOrMarksDirty ==
    [][ /\ (C16_Passes /\ ~sceneIsGame) => (thrown' /\ ~markedDirty')
        /\ (C16_Passes /\ sceneIsGame) => (markedDirty' /\ ~thrown')
        /\ ~C16_Passes => (~thrown' /\ ~markedDirty')
        /\ (preview' # preview /\ lastOp'.op \in {"previewDrag", "squareDrag"})
              => (thrown' \/ markedDirty')
        /\ (lastOp'.op = "previewDrag" /\ C16_Passes)
              => (preview'.x = lastOp'.x /\ preview'.y = lastOp'.y /\ moved') ]_vars

C16_Witness ==
    /\ lastOp.op = "squareDrag"
    /\ ~sceneIsGame
    /\ thrown
    /\ ~markedDirty
    /\ preview.displayWidth # areaData.width

-----------------------------------------------------------------------------
(* C17 as written: a press on the rectangle that drag frames follow emits   *)
(* no Clicked.                                                              *)
C17_Claim_NoClickedWhenDragged ==
    [][ (lastOp.op = "previewPointerDown" /\ lastOp'.op = "previewDrag" /\ moved')
          => \A i \in 1..Len(emitted) : emitted[i].type # "Clicked" ]_vars

(* C17: Clicked is emitted once by every press on the rectangle whose       *)
(* target is the canvas, at the press, whatever follows it; a press with    *)
(* another target and every other handler emit no Clicked.                  *)
C17_ClickedAtCanvasPress ==
    IF lastOp.op = "previewPointerDown" /\ lastOp.flag
    THEN emitted = << [type |-> "Clicked"] >>
    ELSE \A i \in 1..Len(emitted) : emitted[i].type # "Clicked"

C17_Witness ==
    /\ lastOp.op = "previewPointerDown"
    /\ lastOp.flag
    /\ selected
    /\ bodyDown
    /\ emitted = << [type |-> "Clicked"] >>

-----------------------------------------------------------------------------
(* C18 as written: whatever partial updatePreview is handed, the area keeps *)
(* the id it was created with and every Update carries that id.             *)
C18_Claim_IdNeverChanges ==
    /\ areaData.id = "a1"
    /\ \A i \in 1..Len(emitted) :
          emitted[i].type = "Update" => emitted[i].data.id = "a1"

(* C18: updatePreview gives the area the id of its partial, which is the    *)
(* area's own id only when the caller passes that one; every other          *)
(* operation keeps the id, and every Update carries the id the area has     *)
(* when the event is emitted.                                               *)
C18_IdKeptButByUpdatePreview ==
    [][ /\ \A data \in UpdateInputs \cup ForeignIdInputs :
              UpdatePreview(data) => areaData'.id = data.id
        /\ lastOp'.op # "updatePreview" => areaData'.id = areaData.id
        /\ (lastOp'.op = "updatePreview" /\ lastOp'.flag) => areaData'.id = areaData.id
        /\ \A i \in 1..Len(emitted') :
              emitted'[i].type = "Update" => emitted'[i].data.id = areaData'.id ]_vars

C18_Witness ==
    /\ lastOp.op = "squareReleased"
    /\ areaData.id = "a2"
    /\ Len(emitted) = 1
    /\ emitted[1].type = "Update"
    /\ emitted[1].data.id = "a2"

-----------------------------------------------------------------------------
(* C19: whenever moved and squareSelected are both false, the area's x, y,  *)
(* width, height are the rectangle's (center x - width/2, center y -        *)
(* height/2, width, height); drag frames leave the area alone, which        *)
(* changes only at a release, in updatePreview or in setProperty.           *)
C19_InSync(a, p) ==
    /\ a.x = p.x - (p.displayWidth \div 2)
    /\ a.y = p.y - (p.displayHeight \div 2)
    /\ a.width = p.displayWidth
    /\ a.height = p.displayHeight

C19_AreaFollowsRectangleAtRest ==
    [][ /\ (~moved /\ ~squareSelected) => C19_InSync(areaData, preview)
        /\ (~moved' /\ ~squareSelected') => C19_InSync(areaData', preview')
        /\ lastOp'.op \in {"previewDrag", "squareDrag"} => areaData' = areaData
        /\ areaData' # areaData =>
              lastOp'.op \in {"previewPointerUp", "squareReleased",
                              "updatePreview", "setProperty"} ]_vars

C19_Witness ==
    /\ lastOp.op = "squareReleased"
    /\ ~moved
    /\ ~squareSelected
    /\ areaData.width = 90
    /\ preview.displayWidth = 90
    /\ areaData.x = 10
    /\ preview.x = 55

-----------------------------------------------------------------------------
(* C20: a release on the rectangle that directly follows the press, with no *)
(* drag frame between them, emits no Update.                                *)
C20_Claim_NoUpdateWithoutDrag ==
    [][ (lastOp.op = "previewPointerDown" /\ lastOp'.op = "previewPointerUp")
          => \A i \in 1..Len(emitted') : emitted'[i].type # "Update" ]_vars

====
